---- MODULE Spec2Model ----
(***************************************************************************)
(* Model of 1password-secrets (src/onepassword_secrets.py): the command    *)
(* line utility that syncs secrets between 1Password secure notes, Fly.io  *)
(* application secrets and a local env file.                               *)
(*                                                                         *)
(* Strings that the code inspects character by character (item titles,     *)
(* label tokens) are sequences of one-character strings.  A raw secret     *)
(* text is a sequence of lines; a line is a record [key, value] as the     *)
(* dotenv parser reads it: value NoneValue for a bare KEY line, key        *)
(* CommentKey for a comment or blank line, which binds nothing.            *)
(***************************************************************************)
EXTENDS Integers, Sequences, FiniteSets, TLC

VARIABLES
    op,                 \* args.subcommand/args.action: "import", "edit", "pull", "push"
    vault,              \* args.vault: "None" or a vault name
    token,              \* title_substring handed to get_1password_env_file_item_id
    git,                \* what `git config --get remote.origin.url` does, [kind, code, url]
    cwd,                \* os.path.basename(os.getcwd())
    secrets_file_path,  \* args.secrets_file_path of `local create`
    secure_notes,       \* 1Password: the secure notes `op item list` returns, [id, title]
    notesPlain,         \* 1Password: item id -> the notesPlain field, [present, value]
    stamps,             \* 1Password: {<<item id, custom field>>} timestamps written
    env_file,           \* local env file, [exists, content]
    fly,                \* Fly.io: secret name -> value of the application
    releases,           \* Fly.io: the releases of the application created so far
    pc,                 \* position of the invocation
    fn,                 \* top-level function being run (edit tail-calls import)
    error,              \* "none", or the reason the invocation ended with
    item_id,            \* local: the located item id (0 before)
    raw,                \* local: text fetched from notesPlain (secrets / current_raw_secrets)
    previous_raw_secrets, \* local, [present, value]
    new_raw_secrets,    \* local
    deleted_keys, added_keys, keys_whos_value_changed,  \* locals of _prompt_secret_diff
    secrets,            \* local: decoded secrets handed to update_fly_secrets
    last_update_secrets_response, \* local of update_fly_secrets, [kind, release]
    secrets_names_in_fly_only,    \* local of update_fly_secrets
    tmp_file,           \* the NamedTemporaryFile of edit exists
    calls               \* what the invocation did so far: [call, vault, res, arg]

vars == <<op, vault, token, git, cwd, secrets_file_path, secure_notes, notesPlain, stamps, env_file, fly, releases,
          pc, fn,
          error, item_id, raw, previous_raw_secrets, new_raw_secrets, deleted_keys,
          added_keys, keys_whos_value_changed, secrets, last_update_secrets_response,
          secrets_names_in_fly_only, tmp_file, calls>>

----------------------------------------------------------------------------
(* Bounds of the model *)

MaxTitleLen == 3      \* characters of an item title (SpecLocate)
MaxTokenLen == 2      \* characters of a label token (SpecLocate)
MaxItems == 2         \* secure notes listed (SpecLocate)
MaxLines == 2         \* lines of a raw secret text (SpecDiff)
MaxRunLines == 1      \* lines of a raw secret text in a whole invocation (Spec)
MaxVaultItems == 2    \* secure notes listed in a whole invocation (Spec)
MaxDecodeLines == 3   \* lines of a raw secret text (SpecDecode)
MaxMatchTitleLen == 4 \* characters of an item title (SpecMatch)

----------------------------------------------------------------------------
(* Data *)

Range(s) == {s[i] : i \in 1..Len(s)}

SeqsUpTo(S, n) == UNION {[1..m -> S] : m \in 0..n}

Chars == {"a", " "}
Strings(n) == SeqsUpTo(Chars, n)

NoneValue == "None"          \* Python None where a string is expected
CommentKey == "#"            \* a line that binds no key
Keys == {"A", "B"}
Values == {"", "1"}
Lines == ([key : Keys, value : Values \cup {NoneValue}]
              \ {[key |-> "B", value |-> ""]})
             \cup {[key |-> CommentKey, value |-> ""]}
Texts(n) == SeqsUpTo(Lines, n)

Absent == [present |-> FALSE, value |-> <<>>]
Some(t) == [present |-> TRUE, value |-> t]

EmptyDict == [order |-> <<>>, val |-> <<>>]

\* line 24: DEFAULT_ENV_FILE_NAME, the name as one piece
DefaultEnvFileName == <<".env">>

----------------------------------------------------------------------------
(* get_1password_env_file_item_id: the pure part *)

\* str.split(" "): the pieces between single spaces, empty pieces included
RECURSIVE Split(_)
Split(s) ==
    IF \A i \in 1..Len(s) : s[i] # " "
    THEN <<s>>
    ELSE LET i == CHOOSE k \in 1..Len(s) : s[k] = " " /\ \A j \in 1..(k-1) : s[j] # " "
         IN <<SubSeq(s, 1, i-1)>> \o Split(SubSeq(s, i+1, Len(s)))

\* a mutant of TitleMatches: `title_substring in item["title"]`
TitleMatchesSubstring(title_substring, title) ==
    \E i \in 1..Len(title) + 1 : \E j \in (i-1)..Len(title) :
        SubSeq(title, i, j) = title_substring

\* line 79: `title_substring in item["title"].split(" ")`
TitleMatches(title_substring, title) == title_substring \in Range(Split(title))

\* item_ids = [item["id"] for item in secure_notes if ...]
RECURSIVE ItemIds(_, _)
ItemIds(notes, title_substring) ==
    IF notes = <<>> THEN <<>>
    ELSE (IF TitleMatches(title_substring, Head(notes).title)
          THEN <<Head(notes).id>> ELSE <<>>)
         \o ItemIds(Tail(notes), title_substring)

\* a mutant of Resolve: `len(item_ids) > 1` dropped, the first match wins
ResolveFirstMatch(notes, title_substring) ==
    LET item_ids == ItemIds(notes, title_substring)
    IN  IF Len(item_ids) = 0 THEN [kind |-> "not_found", id |-> 0]
        ELSE [kind |-> "ok", id |-> item_ids[1]]

\* lines 79-96: the outcome of the lookup over a listing
Resolve(notes, title_substring) ==
    LET item_ids == ItemIds(notes, title_substring)
    IN  IF Len(item_ids) = 0 THEN [kind |-> "not_found", id |-> 0]
        ELSE IF Len(item_ids) > 1 THEN [kind |-> "ambiguous", id |-> 0]
        ELSE [kind |-> "ok", id |-> item_ids[1]]

----------------------------------------------------------------------------
(* get_secrets_from_envs *)

\* dotenv_values: an ordered dict, a later binding of a key overriding the
\* earlier one in place
RECURSIVE DotenvValues(_)
DotenvValues(text) ==
    IF text = <<>> THEN EmptyDict
    ELSE LET d == DotenvValues(SubSeq(text, 1, Len(text) - 1))
             l == text[Len(text)]
         IN  IF l.key = CommentKey THEN d
             ELSE IF l.key \in Range(d.order)
             THEN [order |-> d.order,
                   val |-> [k \in Range(d.order) |->
                               IF k = l.key THEN l.value ELSE d.val[k]]]
             ELSE [order |-> Append(d.order, l.key),
                   val |-> [k \in Range(d.order) \cup {l.key} |->
                               IF k = l.key THEN l.value ELSE d.val[k]]]

DictKeys(d) == Range(d.order)

\* a mutant of KeysWithNullValues: only the first null key is reported
FirstKeyWithNullValue(text) ==
    LET d == DotenvValues(text)
        null == SelectSeq(d.order, LAMBDA k : d.val[k] = NoneValue)
    IN  IF null = <<>> THEN <<>> ELSE <<null[1]>>

\* keys_with_values_null_values, in dict order
KeysWithNullValues(text) ==
    LET d == DotenvValues(text)
    IN  SelectSeq(d.order, LAMBDA k : d.val[k] = NoneValue)

\* a mutant of ParseFails: the null values are not looked for
ParseNeverFails(text) == FALSE

\* line 445: `if len(keys_with_values_null_values) > 0`
ParseFails(text) == Len(KeysWithNullValues(text)) > 0

\* the dict get_secrets_from_envs returns when it does not raise
GetSecretsFromEnvs(text) == DotenvValues(text)

----------------------------------------------------------------------------
(* _prompt_secret_diff: the three key sets, lines 301-310 *)

DeletedKeys(prev, new) == DictKeys(prev) \ DictKeys(new)

\* a mutant of AddedKeys: the difference taken the wrong way round
AddedKeysSwapped(prev, new) == DictKeys(prev) \ DictKeys(new)

AddedKeys(prev, new) == DictKeys(new) \ DictKeys(prev)

\* a mutant: every key present on both sides counts as changed
KeysInBoth(prev, new) == DictKeys(prev) \cap DictKeys(new)

KeysWhosValueChanged(prev, new) ==
    {k \in DictKeys(prev) \cap DictKeys(new) : prev.val[k] # new.val[k]}

----------------------------------------------------------------------------
(* _get_git_remote_name and get_secret_name_label_from_current_directory: the
   pure part.  A remote url is a sequence of characters, "git" standing for
   the three letters of the suffix; a label is "repo:" or "local-dir:"
   followed by the characters of the name. *)

UrlChars == {"git", "h", "o", "r", "@", ":", "/", "."}
WordChars == {"git", "h", "o", "r"}             \* \w
NotSlashColon == UrlChars \ {"/", ":"}          \* [^\/:]

\* the end of the longest run of characters of `allowed` that starts at
\* `from` (from - 1: there is none)
RunEnd(s, from, allowed) ==
    CHOOSE e \in (from - 1)..Len(s) :
        /\ \A i \in from..e : s[i] \in allowed
        /\ e = Len(s) \/ s[e+1] \notin allowed

NoMatch == [matched |-> FALSE, group4 |-> <<>>, group5 |-> <<>>]

\* line 578: re.match(r"^(\w+)(:\/\/|@)([^\/:]+)[\/:]([^\/:]+)\/(.+).git$", url)
GitRepositoryRegexMatch(url) ==
    LET n == Len(url)
        a == RunEnd(url, 1, WordChars)
        s == IF a < n /\ url[a+1] = "@" THEN a + 1
             ELSE IF a + 3 <= n /\ SubSeq(url, a+1, a+3) = <<":", "/", "/">> THEN a + 3
             ELSE 0
    IN  IF a < 1 \/ s = 0 THEN NoMatch
        ELSE LET h == RunEnd(url, s+1, NotSlashColon)
             IN  IF h < s + 1 \/ h >= n THEN NoMatch
                 ELSE LET o == RunEnd(url, h+2, NotSlashColon)
                      IN  IF o < h + 2 \/ o >= n THEN NoMatch
                          ELSE IF url[o+1] # "/" THEN NoMatch
                          ELSE IF n - 2 < o + 2 \/ url[n] # "git" THEN NoMatch
                          ELSE [matched |-> TRUE,
                                group4 |-> SubSeq(url, h+2, o),
                                group5 |-> SubSeq(url, o+2, n-2)]

GitMissing == [kind |-> "not_in_path", code |-> 0, url |-> <<>>]
GitExit(c) == [kind |-> "exit", code |-> c, url |-> <<>>]
GitUrl(u) == [kind |-> "url", code |-> 0, url |-> u]

\* _get_git_remote_name, lines 577-615: (error_message, name)
GetGitRemoteName(g) ==
    IF g.kind = "not_in_path"
    THEN [error_message |-> "git not in the PATH", name |-> <<>>]
    ELSE IF g.kind = "exit"
    THEN IF g.code = 1
         THEN [error_message |-> "Either not in a git repository or remote is not set",
               name |-> <<>>]
         ELSE [error_message |-> "Failed to retrieve the git remote url", name |-> <<>>]
    ELSE LET regex_match == GitRepositoryRegexMatch(g.url)
         IN  IF ~regex_match.matched
             THEN [error_message |-> "Failed to parse git remote", name |-> <<>>]
             ELSE [error_message |-> NoneValue,
                   name |-> regex_match.group4 \o <<"/">> \o regex_match.group5]

\* a mutant of LabelOf: the error message is not looked at
LabelAlwaysRepo(result, directory_name) == <<"repo:">> \o result.name

\* lines 626-637: the label returned
LabelOf(result, directory_name) ==
    IF result.error_message = NoneValue
    THEN <<"repo:">> \o result.name
    ELSE <<"local-dir:">> \o directory_name

----------------------------------------------------------------------------
(* The invocation: shared pieces *)

args == <<op, vault, token, git, cwd, secrets_file_path, secure_notes>>
diff_locals == <<deleted_keys, added_keys, keys_whos_value_changed>>
fly_locals == <<secrets, last_update_secrets_response, secrets_names_in_fly_only>>

\* a call is logged with the vault scope it carried ("-" when it takes none),
\* its result (or the answer given) and its payload
LogArg(c, v, r, a) ==
    calls' = Append(calls, [call |-> c, vault |-> v, res |-> r, arg |-> a])

Log(c, v, r) == LogArg(c, v, r, {})

\* a mutant of Raise: the error is reported and the function goes on
ReportAndGoOn(reason) == pc' = pc /\ error' = reason

\* raise_error (UserError, caught by main: exit 1) or an uncaught exception
Raise(reason) == pc' = "done" /\ error' = reason

Return == pc' = "done" /\ error' = "none"

\* get_secrets_from_envs, lines 445-450: raise_error with the message that
\* joins the keys whose value is null
RaiseParseError(text) ==
    /\ LogArg("raise_error", "-", "parse_error", KeysWithNullValues(text))
    /\ Raise("parse_error")

ItemIdsOf(notes) == {notes[i].id : i \in 1..Len(notes)}

\* _boolean_prompt: the answer, or None from inquirer (raises "Aborted by user")
Answers == {"yes", "no", "none"}

\* subprocess.check_output of `op`: output, or CalledProcessError -> raise_error
OpResults == {"ok", "error"}

\* _make_fly_graphql_request: data, an errors array -> raise_error, or
\* `fly auth token` failing (CalledProcessError, not a UserError)
FlyResults == {"ok", "errors", "crash"}

----------------------------------------------------------------------------
(* get_secret_name_label_from_current_directory, lines 618-637, as pull and
   push call it (lines 508, 530); the fallback is reported, not raised *)

AfterLabel == IF fn = "create" THEN "read_secrets_file" ELSE "locate"

DeriveLabel ==
    /\ pc = "label"
    /\ LET result == GetGitRemoteName(git)
       IN  /\ token' = LabelOf(result, cwd)
           /\ IF result.error_message = NoneValue
              THEN UNCHANGED calls
              ELSE Log("print_label_fallback", "-", result.error_message)
    /\ pc' = AfterLabel
    /\ UNCHANGED <<op, vault, git, cwd, secrets_file_path, secure_notes, notesPlain, stamps, env_file,
                   fly, releases, fn, error, item_id, raw, previous_raw_secrets,
                   new_raw_secrets,
                   diff_locals, fly_locals, tmp_file>>

----------------------------------------------------------------------------
(* get_1password_env_file_item_id, lines 67-96 *)

AfterLocate == IF fn = "push" THEN "get_filename" ELSE "fetch"

Locate ==
    /\ pc = "locate"
    /\ \E r \in OpResults :
        /\ Log("op_item_list", vault, r)
        /\ IF r = "error"
           THEN Raise("op_failed") /\ UNCHANGED item_id
           ELSE LET res == Resolve(secure_notes, token)
                IN  IF res.kind = "ok"
                    THEN /\ item_id' = res.id
                         /\ pc' = AfterLocate
                         /\ UNCHANGED error
                    ELSE Raise(res.kind) /\ UNCHANGED item_id
    /\ UNCHANGED <<args, notesPlain, stamps, env_file, fly, releases, fn, raw,
                   previous_raw_secrets, new_raw_secrets, diff_locals, fly_locals,
                   tmp_file>>

----------------------------------------------------------------------------
(* get_envs_from_1password, lines 107-118, as import, edit and pull call it *)

AfterFetch ==
    CASE fn = "import" -> "decode"
      [] fn = "edit"   -> "open_tmp"
      [] OTHER         -> "get_filename"

Fetch ==
    /\ pc = "fetch"
    /\ \E r \in OpResults :
        /\ Log("op_item_get", vault, r)
        /\ IF r = "error"
           THEN Raise("op_failed") /\ UNCHANGED raw
           ELSE LET result == notesPlain[item_id]
                IN  IF ~result.present \/ result.value = <<>>
                    THEN Raise("empty_secrets") /\ UNCHANGED raw
                    ELSE /\ raw' = result.value
                         /\ pc' = AfterFetch
                         /\ UNCHANGED error
    /\ UNCHANGED <<args, notesPlain, stamps, env_file, fly, releases, fn, item_id,
                   previous_raw_secrets, new_raw_secrets, diff_locals, fly_locals,
                   tmp_file>>

----------------------------------------------------------------------------
(* get_filename_from_1password, lines 121-128: pull passes the vault scope,
   push (line 533) does not *)

GetFilename ==
    /\ pc = "get_filename"
    /\ \E r \in OpResults :
        /\ Log("op_item_get", IF fn = "push" THEN "None" ELSE vault, r)
        /\ IF r = "error"
           THEN Raise("op_failed")
           ELSE pc' = "read_file" /\ UNCHANGED error
    /\ UNCHANGED <<args, notesPlain, stamps, env_file, fly, releases, fn, item_id, raw,
                   previous_raw_secrets, new_raw_secrets, diff_locals, fly_locals,
                   tmp_file>>

\* _get_file_contents, lines 137-145
GetFileContents(raise_if_not_found) ==
    IF env_file.exists THEN [raised |-> FALSE, result |-> Some(env_file.content)]
    ELSE [raised |-> raise_if_not_found, result |-> Absent]

\* a mutant of Truthy: `if previous_raw_secrets is not None`
IsNotNone(contents) == contents.present

\* `if previous_raw_secrets:` -- None and "" are both falsy
Truthy(contents) == contents.present /\ contents.value # <<>>

\* pull_local_secrets, lines 515-521
ReadFilePull ==
    /\ pc = "read_file" /\ fn = "pull"
    /\ Log("file_read", "-", IF env_file.exists THEN "ok" ELSE "error")
    /\ LET got == GetFileContents(FALSE)
       IN  /\ previous_raw_secrets' = got.result
           /\ new_raw_secrets' = raw
           /\ pc' = IF Truthy(got.result) THEN "prompt_secret_diff" ELSE "write_file"
    /\ UNCHANGED <<args, notesPlain, stamps, env_file, fly, releases, fn, error, item_id, raw,
                   diff_locals, fly_locals, tmp_file>>

\* push_local_secrets, lines 535-537
ReadFilePush ==
    /\ pc = "read_file" /\ fn = "push"
    /\ Log("file_read", "-", IF env_file.exists THEN "ok" ELSE "error")
    /\ LET got == GetFileContents(TRUE)
       IN  IF got.raised
           THEN Raise("file_not_found") /\ UNCHANGED new_raw_secrets
           ELSE /\ new_raw_secrets' = got.result.value
                /\ pc' = "fetch_previous"
                /\ UNCHANGED error
    /\ UNCHANGED <<args, notesPlain, stamps, env_file, fly, releases, fn, item_id, raw,
                   previous_raw_secrets, diff_locals, fly_locals, tmp_file>>

\* update_1password_secrets, lines 394-395: previous_raw_secrets is None, so
\* get_envs_from_1password(item_id) is called, without the vault scope
FetchPrevious ==
    /\ pc = "fetch_previous"
    /\ \E r \in OpResults :
        /\ Log("op_item_get", "None", r)
        /\ IF r = "error"
           THEN Raise("op_failed") /\ UNCHANGED previous_raw_secrets
           ELSE LET result == notesPlain[item_id]
                IN  IF ~result.present \/ result.value = <<>>
                    THEN Raise("empty_secrets") /\ UNCHANGED previous_raw_secrets
                    ELSE /\ previous_raw_secrets' = Some(result.value)
                         /\ pc' = "prompt_secret_diff"
                         /\ UNCHANGED error
    /\ UNCHANGED <<args, notesPlain, stamps, env_file, fly, releases, fn, item_id, raw,
                   new_raw_secrets, diff_locals, fly_locals, tmp_file>>

----------------------------------------------------------------------------
(* _prompt_secret_diff, lines 297-343 *)

\* lines 298-310: both texts are decoded, then the three key sets computed
PromptSecretDiffCompute ==
    /\ pc = "prompt_secret_diff"
    /\ IF ParseFails(previous_raw_secrets.value)
       THEN RaiseParseError(previous_raw_secrets.value) /\ UNCHANGED diff_locals
       ELSE IF ParseFails(new_raw_secrets)
       THEN RaiseParseError(new_raw_secrets) /\ UNCHANGED diff_locals
       ELSE /\ UNCHANGED calls
            /\ LET previous_parsed_secrets == GetSecretsFromEnvs(previous_raw_secrets.value)
                  new_parsed_secrets == GetSecretsFromEnvs(new_raw_secrets)
              IN  /\ deleted_keys' = DeletedKeys(previous_parsed_secrets, new_parsed_secrets)
                  /\ added_keys' = AddedKeys(previous_parsed_secrets, new_parsed_secrets)
                  /\ keys_whos_value_changed' =
                         KeysWhosValueChanged(previous_parsed_secrets, new_parsed_secrets)
                  /\ pc' = "confirm_diff"
                  /\ UNCHANGED error
    /\ UNCHANGED <<args, notesPlain, stamps, env_file, fly, releases, fn, item_id, raw,
                   previous_raw_secrets, new_raw_secrets, fly_locals, tmp_file>>

\* line 312
NoChangesDetected ==
    deleted_keys = {} /\ added_keys = {} /\ keys_whos_value_changed = {}

\* a mutant of DiffPromptKind: the no-change branch is missing
DiffPromptAlwaysApply == "prompt_apply"

\* lines 312-343: "Proceed anyway" on an empty diff, else "Apply these changes"
DiffPromptKind == IF NoChangesDetected THEN "prompt_proceed" ELSE "prompt_apply"

AfterDiff == IF fn = "pull" THEN "write_file" ELSE "vault_edit"

\* a mutant of ProceedAnyway: the answer to "Proceed anyway" is not looked at
ProceedAnywayIgnored(ans) == TRUE

\* line 314: `if not _boolean_prompt("Proceed anyway"): raise_error(...)`
ProceedAnyway(ans) == ans = "yes"

\* a mutant of ApplyTheseChanges: the answer is not looked at
ApplyTheseChangesIgnored(ans) == TRUE

\* line 342: `if not _boolean_prompt("Apply these changes"): raise_error(...)`
ApplyTheseChanges(ans) == ans = "yes"

PromptSecretDiffConfirm ==
    /\ pc = "confirm_diff"
    /\ \E ans \in Answers :
        /\ Log(DiffPromptKind, "-", ans)
        /\ IF ans = "none"
           THEN Raise("aborted_by_user")      \* _boolean_prompt, lines 158-159
           ELSE IF (IF NoChangesDetected THEN ProceedAnyway(ans)
                                         ELSE ApplyTheseChanges(ans))
                THEN pc' = AfterDiff /\ UNCHANGED error
                ELSE Raise("aborted_by_user")
    /\ UNCHANGED <<args, notesPlain, stamps, env_file, fly, releases, fn, item_id, raw,
                   previous_raw_secrets, new_raw_secrets, diff_locals, fly_locals,
                   tmp_file>>

----------------------------------------------------------------------------
(* pull_local_secrets, lines 523-526: the env file is (over)written *)

WriteFile ==
    /\ pc = "write_file"
    /\ LogArg("file_write", "-", "ok", {raw})
    /\ env_file' = [exists |-> TRUE, content |-> raw]
    /\ Return
    /\ UNCHANGED <<args, notesPlain, stamps, fly, releases, fn, item_id, raw,
                   previous_raw_secrets, new_raw_secrets, diff_locals, fly_locals,
                   tmp_file>>

----------------------------------------------------------------------------
(* update_1password_secrets, lines 402-411: `op item edit` writes notesPlain
   and the "last edited at" field *)

VaultEdit ==
    /\ pc = "vault_edit"
    /\ \E r \in OpResults :
        /\ LogArg("op_item_edit_notes", vault, r, {new_raw_secrets})
        /\ IF r = "error"
           THEN Raise("op_failed") /\ UNCHANGED <<notesPlain, stamps>>
           ELSE /\ notesPlain' = [notesPlain EXCEPT ![item_id] = Some(new_raw_secrets)]
                /\ stamps' = stamps \cup {<<item_id, "last edited at">>}
                /\ IF fn = "edit"
                   THEN pc' = "prompt_import" /\ UNCHANGED error
                   ELSE Return                 \* push_local_secrets, lines 539-541
    /\ UNCHANGED <<args, env_file, fly, releases, fn, item_id, raw, previous_raw_secrets,
                   new_raw_secrets, diff_locals, fly_locals, tmp_file>>

----------------------------------------------------------------------------
(* edit_1password_fly_secrets, lines 468-504 *)

\* lines 473-475: the temporary file is created and filled
OpenTempFile ==
    /\ pc = "open_tmp"
    /\ tmp_file' = TRUE
    /\ pc' = "editor"
    /\ UNCHANGED <<args, notesPlain, stamps, env_file, fly, releases, fn, error, item_id, raw,
                   previous_raw_secrets, new_raw_secrets, diff_locals, fly_locals,
                   calls>>

\* a mutant of TmpFileAfterWith: the file is removed by a statement at the
\* end of the block, which an exception skips
TmpFileKeptOnException(raised) == raised

\* line 473: `with NamedTemporaryFile(...)` closes, and so deletes, the file
\* when the block is left, by its end or by an exception
TmpFileAfterWith(raised) == FALSE

\* lines 487-493: the editor runs; leaving the `with` block, by return or by
\* CalledProcessError (not a UserError), deletes the file
RunEditor ==
    /\ pc = "editor"
    /\ \/ /\ Log("editor", "-", "error")
          /\ tmp_file' = TmpFileAfterWith(TRUE)
          /\ Raise("crash")
          /\ UNCHANGED <<previous_raw_secrets, new_raw_secrets>>
       \/ \E edited \in Texts(MaxRunLines) :
          /\ Log("editor", "-", "ok")
          /\ tmp_file' = TmpFileAfterWith(FALSE)
          /\ new_raw_secrets' = edited
          /\ previous_raw_secrets' = Some(raw)
          /\ pc' = "prompt_secret_diff"
          /\ UNCHANGED error
    /\ UNCHANGED <<args, notesPlain, stamps, env_file, fly, releases, fn, item_id, raw,
                   diff_locals, fly_locals>>

\* a mutant of ImportConfirmed: the import follows whatever the answer
ImportAlways(ans) == TRUE

\* line 503: `if _boolean_prompt("Secrets updated in 1Password. Import ..."):`
ImportConfirmed(ans) == ans = "yes"

\* lines 503-504
PromptImport ==
    /\ pc = "prompt_import"
    /\ \E ans \in Answers :
        /\ Log("prompt_import", "-", ans)
        /\ IF ans = "none"
           THEN Raise("aborted_by_user") /\ UNCHANGED fn
           ELSE IF ImportConfirmed(ans)
                THEN fn' = "import" /\ pc' = "locate" /\ UNCHANGED error
                ELSE Return /\ UNCHANGED fn
    /\ UNCHANGED <<args, notesPlain, stamps, env_file, fly, releases, item_id, raw,
                   previous_raw_secrets, new_raw_secrets, diff_locals, fly_locals,
                   tmp_file>>

----------------------------------------------------------------------------
(* import_1password_secrets_to_fly, lines 455-465 *)

\* line 458: get_secrets_from_envs on the fetched text
Decode ==
    /\ pc = "decode"
    /\ IF ParseFails(raw)
       THEN RaiseParseError(raw) /\ UNCHANGED secrets
       ELSE /\ secrets' = GetSecretsFromEnvs(raw)
            /\ pc' = "set_secrets"
            /\ UNCHANGED <<error, calls>>
    /\ UNCHANGED <<args, notesPlain, stamps, env_file, fly, releases, fn, item_id, raw,
                   previous_raw_secrets, new_raw_secrets, diff_locals,
                   last_update_secrets_response, secrets_names_in_fly_only,
                   tmp_file>>

\* line 183: secrets_input, the key/value pairs sent
SecretsInput(d) == {<<k, d.val[k]>> : k \in DictKeys(d)}

\* Fly.io after setSecrets with replaceAll: every key sent holds the value
\* sent; of the keys not sent, the platform keeps the set `kept`
FlyAfterSet(sent, kept) ==
    [k \in DictKeys(sent) \cup kept |->
        IF k \in DictKeys(sent) THEN sent.val[k] ELSE fly[k]]

\* update_fly_secrets, lines 183-210: the replace-all mutation
SetSecrets ==
    /\ pc = "set_secrets"
    /\ \/ \E r \in FlyResults \ {"ok"} :
          /\ LogArg("fly_setSecrets", "-", r, SecretsInput(secrets))
          /\ Raise(IF r = "errors" THEN "fly_errors" ELSE "crash")
          /\ UNCHANGED <<fly, releases, last_update_secrets_response>>
       \/ \E release \in {"null", "v1"}, kept \in SUBSET (DOMAIN fly \ DictKeys(secrets)) :
          /\ LogArg("fly_setSecrets", "-", "ok", SecretsInput(secrets))
          /\ fly' = FlyAfterSet(secrets, kept)
          /\ releases' = IF release = "null" THEN releases ELSE Append(releases, release)
          /\ last_update_secrets_response' = [kind |-> "setSecrets", release |-> release]
          /\ pc' = "list_secrets"
          /\ UNCHANGED error
    /\ UNCHANGED <<args, notesPlain, stamps, env_file, fn, item_id, raw,
                   previous_raw_secrets, new_raw_secrets, diff_locals, secrets,
                   secrets_names_in_fly_only, tmp_file>>

\* a mutant of SecretsNamesInFlyOnly: every listed name is taken
SecretsNamesInFly(names, desired) == names

\* lines 230-233
SecretsNamesInFlyOnly(names, desired) == names \ DictKeys(desired)

\* lines 212-233: the names query and the difference
ListSecrets ==
    /\ pc = "list_secrets"
    /\ \E r \in FlyResults :
        /\ LogArg("fly_secrets_query", "-", r, IF r = "ok" THEN DOMAIN fly ELSE {})
        /\ IF r # "ok"
           THEN /\ Raise(IF r = "errors" THEN "fly_errors" ELSE "crash")
                /\ UNCHANGED secrets_names_in_fly_only
           ELSE LET only == SecretsNamesInFlyOnly(DOMAIN fly, secrets)
                IN  /\ secrets_names_in_fly_only' = only
                    /\ pc' = IF Cardinality(only) > 0 THEN "prompt_delete" ELSE "release"
                    /\ UNCHANGED error
    /\ UNCHANGED <<args, notesPlain, stamps, env_file, fly, releases, fn, item_id, raw,
                   previous_raw_secrets, new_raw_secrets, diff_locals, secrets,
                   last_update_secrets_response, tmp_file>>

\* a mutant of DeletionConfirmed: the unset is sent whatever the answer
DeletionAlways(ans) == TRUE

\* line 235: `len(...) > 0 and _boolean_prompt(...)`
DeletionConfirmed(ans) == ans = "yes"

\* lines 235-239: the deletion prompt
PromptDelete ==
    /\ pc = "prompt_delete"
    /\ \E ans \in Answers :
        /\ Log("prompt_delete", "-", ans)
        /\ IF ans = "none"
           THEN Raise("aborted_by_user")       \* _boolean_prompt, lines 158-159
           ELSE /\ pc' = IF DeletionConfirmed(ans) THEN "unset_secrets" ELSE "release"
                /\ UNCHANGED error
    /\ UNCHANGED <<args, notesPlain, stamps, env_file, fly, releases, fn, item_id, raw,
                   previous_raw_secrets, new_raw_secrets, diff_locals, fly_locals,
                   tmp_file>>

\* lines 240-263: the unset mutation; its response replaces the setSecrets one
UnsetSecrets ==
    /\ pc = "unset_secrets"
    /\ \E r \in FlyResults :
        /\ LogArg("fly_unsetSecrets", "-", r, secrets_names_in_fly_only)
        /\ IF r # "ok"
           THEN /\ Raise(IF r = "errors" THEN "fly_errors" ELSE "crash")
                /\ UNCHANGED <<fly, releases, last_update_secrets_response>>
           ELSE /\ fly' = [k \in DOMAIN fly \ secrets_names_in_fly_only |-> fly[k]]
                /\ releases' = Append(releases, "id")
                /\ last_update_secrets_response' =
                       [kind |-> "unsetSecrets", release |-> "id"]
                /\ pc' = "release"
                /\ UNCHANGED error
    /\ UNCHANGED <<args, notesPlain, stamps, env_file, fn, item_id, raw,
                   previous_raw_secrets, new_raw_secrets, diff_locals, secrets,
                   secrets_names_in_fly_only, tmp_file>>

\* line 265: last_update_secrets_response.get("setSecrets", {}).get("release", None)
ReleaseOf(response) ==
    IF response.kind = "setSecrets" THEN response.release ELSE "null"

\* lines 267-271: a release was created and is reported
ReportRelease ==
    /\ pc = "release"
    /\ ReleaseOf(last_update_secrets_response) # "null"
    /\ Log("print_releasing", "-", ReleaseOf(last_update_secrets_response))
    /\ pc' = "record"
    /\ UNCHANGED <<args, notesPlain, stamps, env_file, fly, releases, fn, error, item_id, raw,
                   previous_raw_secrets, new_raw_secrets, diff_locals, fly_locals,
                   tmp_file>>

\* lines 272-276: no release; "Deploy secrets now" is asked
PromptDeploy ==
    /\ pc = "release"
    /\ ReleaseOf(last_update_secrets_response) = "null"
    /\ \E ans \in Answers :
        /\ Log("prompt_deploy", "-", ans)
        /\ CASE ans = "none" -> Raise("aborted_by_user")
             [] ans = "yes"  -> pc' = "deploy" /\ UNCHANGED error
             [] ans = "no"   -> pc' = "record" /\ UNCHANGED error
    /\ UNCHANGED <<args, notesPlain, stamps, env_file, fly, releases, fn, item_id, raw,
                   previous_raw_secrets, new_raw_secrets, diff_locals, fly_locals,
                   tmp_file>>

\* _deploy_fly_secrets, lines 279-294
Deploy ==
    /\ pc = "deploy"
    /\ \E r \in OpResults :
        /\ Log("flyctl_secrets_deploy", "-", r)
        /\ IF r = "error"
           THEN Raise("deploy_failed")
           ELSE pc' = "record" /\ UNCHANGED error
    /\ UNCHANGED <<args, notesPlain, stamps, env_file, fly, releases, fn, item_id, raw,
                   previous_raw_secrets, new_raw_secrets, diff_locals, fly_locals,
                   tmp_file>>

\* lines 464-465 and update_1password_custom_field, lines 414-423
Record ==
    /\ pc = "record"
    /\ \E r \in OpResults :
        /\ Log("op_item_edit_field", vault, r)
        /\ IF r = "error"
           THEN Raise("op_failed") /\ UNCHANGED stamps
           ELSE /\ stamps' = stamps \cup {<<item_id, "last imported at">>}
                /\ Return
    /\ UNCHANGED <<args, notesPlain, env_file, fly, releases, fn, item_id, raw,
                   previous_raw_secrets, new_raw_secrets, diff_locals, fly_locals,
                   tmp_file>>

----------------------------------------------------------------------------
(* create_local_secrets, lines 544-574 *)

\* lines 547: the secrets file must be there
ReadSecretsFile ==
    /\ pc = "read_secrets_file"
    /\ Log("file_read", "-", IF env_file.exists THEN "ok" ELSE "error")
    /\ LET got == GetFileContents(TRUE)
       IN  IF got.raised
           THEN Raise("file_not_found") /\ UNCHANGED raw
           ELSE /\ raw' = got.result.value
                /\ pc' = "create_item"
                /\ UNCHANGED error
    /\ UNCHANGED <<args, notesPlain, stamps, env_file, fly, releases, fn, item_id,
                   previous_raw_secrets, new_raw_secrets, diff_locals, fly_locals,
                   tmp_file>>

\* line 549: f"{secrets_file_path} local development {secret_note_label}"
CreatedTitle(path, secret_note_label) ==
    path \o <<" ", "l", "o", "c", "a", "l", " ",
              "d", "e", "v", "e", "l", "o", "p", "m", "e", "n", "t", " ">>
         \o secret_note_label

\* create_1password_secrets, lines 373-390: `op item create` adds a secure
\* note with the title, the text and the "last edited at" field
CreateItem ==
    /\ pc = "create_item"
    /\ LET title == CreatedTitle(secrets_file_path, token)
           id == Len(secure_notes) + 1
       IN  \E r \in OpResults :
            /\ LogArg("op_item_create", vault, r, {title})
            /\ IF r = "error"
               THEN /\ Raise("op_failed")
                    /\ UNCHANGED <<secure_notes, notesPlain, stamps, item_id>>
               ELSE /\ secure_notes' = Append(secure_notes, [id |-> id, title |-> title])
                    /\ notesPlain' = [i \in DOMAIN notesPlain \cup {id} |->
                                         IF i = id THEN Some(raw) ELSE notesPlain[i]]
                    /\ stamps' = stamps \cup {<<id, "last edited at">>}
                    /\ item_id' = id
                    /\ pc' = "share_link"
                    /\ UNCHANGED error
    /\ UNCHANGED <<op, vault, token, git, cwd, secrets_file_path, env_file, fly,
                   releases, fn, raw, previous_raw_secrets, new_raw_secrets,
                   diff_locals, fly_locals, tmp_file>>

\* lines 555-574: the share link is fetched and shown
ShareLink ==
    /\ pc = "share_link"
    /\ \E r \in OpResults :
        /\ Log("op_item_get_share_link", vault, r)
        /\ IF r = "error" THEN Raise("op_failed") ELSE Return
    /\ UNCHANGED <<args, notesPlain, stamps, env_file, fly, releases, fn, item_id, raw,
                   previous_raw_secrets, new_raw_secrets, diff_locals, fly_locals,
                   tmp_file>>

\* main, lines 713-726, run again: after a create that succeeded, a pull or a
\* push is started from the same directory, remote and vault scope
FollowingRun ==
    /\ pc = "done" /\ op = "create" /\ error = "none"
    /\ op' \in {"pull", "push"}
    /\ fn' = op'
    /\ pc' = "label"
    /\ token' = <<>>
    /\ item_id' = 0
    /\ raw' = <<>>
    /\ calls' = <<>>
    /\ UNCHANGED <<vault, git, cwd, secrets_file_path, secure_notes, notesPlain,
                   stamps, env_file, fly, releases, error, previous_raw_secrets,
                   new_raw_secrets, diff_locals, fly_locals, tmp_file>>

\* main, lines 713-729: sys.exit(1) on UserError; an uncaught exception ends
\* the interpreter with status 1 as well; 0 when the subcommand returned
ExitCode == IF error = "none" THEN 0 ELSE 1

----------------------------------------------------------------------------
(* Specifications *)

\* titles and token of a whole invocation: the token as the word of a title,
\* and as a part of a longer word
AppToken == <<"a">>
RunTitles == {<<"a">>, <<"a", "a">>}

\* the same for pull and push, run in directory "a": git is missing, or the
\* remote is that of repository o/r, of which the vault holds no note
RunDir == <<"a">>
RunLabel == <<"local-dir:", "a">>
RunLabelTitles == {RunLabel, RunLabel \o <<"a">>}
SshUrl == <<"git", "@", "h", ".", "h", ":", "o", "/", "r", ".", "git">>
RunGit == {GitMissing, GitUrl(SshUrl)}

\* `op item list`: the listing `notes` holds up to n notes, titled from
\* `titles`, with distinct ids
IsListing(notes, titles, n) ==
    \E m \in 0..n : \E t \in [1..m -> titles] :
        notes = [i \in 1..m |-> [id |-> i, title |-> t[i]]]

\* what the application holds on Fly.io before the invocation
FlyKeys == {"A", "D"}
FlyStates == UNION {[S -> {"0"}] : S \in {{}, FlyKeys}}

NoFile == [exists |-> FALSE, content |-> <<>>]
File(t) == [exists |-> TRUE, content |-> t]

\* the locals before the invocation ran
LocalsInit ==
    /\ error = "none"
    /\ item_id = 0
    /\ raw = <<>>
    /\ previous_raw_secrets = Absent
    /\ new_raw_secrets = <<>>
    /\ deleted_keys = {} /\ added_keys = {} /\ keys_whos_value_changed = {}
    /\ secrets = EmptyDict
    /\ last_update_secrets_response = [kind |-> "none", release |-> "null"]
    /\ secrets_names_in_fly_only = {}
    /\ tmp_file = FALSE
    /\ calls = <<>>

\* main, lines 713-726: one invocation of one subcommand
Init ==
    /\ op \in {"import", "edit", "pull", "push"}
    /\ vault \in {"None", "v1"}
    /\ IF op \in {"pull", "push"}
       THEN /\ token = <<>>
            /\ git \in RunGit
            /\ IsListing(secure_notes, RunLabelTitles, MaxVaultItems)
            /\ pc = "label"
       ELSE /\ token = AppToken
            /\ git = GitMissing
            /\ IsListing(secure_notes, RunTitles, MaxVaultItems)
            /\ pc = "locate"
    /\ cwd = RunDir
    /\ secrets_file_path = DefaultEnvFileName
    /\ \E n \in {Absent} \cup {Some(t) : t \in Texts(MaxRunLines)} :
            notesPlain = [i \in ItemIdsOf(secure_notes) |-> n]
    /\ stamps = {}
    /\ IF op \in {"pull", "push"}
       THEN env_file \in {NoFile} \cup {File(t) : t \in Texts(MaxRunLines)}
       ELSE env_file = NoFile
    /\ IF op \in {"import", "edit"} THEN fly \in FlyStates ELSE fly = <<>>
    /\ releases = <<>>
    /\ fn = op
    /\ LocalsInit

Next ==
    \/ DeriveLabel
    \/ Locate \/ Fetch \/ GetFilename \/ ReadFilePull \/ ReadFilePush \/ FetchPrevious
    \/ PromptSecretDiffCompute \/ PromptSecretDiffConfirm \/ WriteFile \/ VaultEdit
    \/ OpenTempFile \/ RunEditor \/ PromptImport
    \/ Decode \/ SetSecrets \/ ListSecrets \/ PromptDelete \/ UnsetSecrets
    \/ ReportRelease \/ PromptDeploy \/ Deploy \/ Record

Spec == Init /\ [][Next]_vars

----------------------------------------------------------------------------
(* get_1password_env_file_item_id over every listing and token in the bounds *)

LocateInit ==
    /\ op = "import"
    /\ vault = "None"
    /\ token \in Strings(MaxTokenLen) \ {<<>>}
    /\ git = GitMissing
    /\ cwd = RunDir
    /\ secrets_file_path = DefaultEnvFileName
    /\ IsListing(secure_notes, Strings(MaxTitleLen), MaxItems)
    /\ notesPlain = [i \in ItemIdsOf(secure_notes) |-> Absent]
    /\ stamps = {}
    /\ env_file = NoFile
    /\ fly = <<>>
    /\ releases = <<>>
    /\ pc = "locate"
    /\ fn = op
    /\ LocalsInit

LocateNext == Locate

SpecLocate == LocateInit /\ [][LocateNext]_vars

(* _prompt_secret_diff over every pair of texts in the bounds; the previous
   text is never the empty string where the code calls it *)

DiffInit ==
    /\ op = "push"
    /\ vault = "None"
    /\ token = RunLabel
    /\ git = GitMissing
    /\ cwd = RunDir
    /\ secrets_file_path = DefaultEnvFileName
    /\ secure_notes = <<[id |-> 1, title |-> RunLabel]>>
    /\ \E t \in Texts(MaxLines) \ {<<>>} :
        /\ notesPlain = [i \in {1} |-> Some(t)]
        /\ previous_raw_secrets = Some(t)
    /\ \E t \in Texts(MaxLines) :
        /\ env_file = File(t)
        /\ new_raw_secrets = t
    /\ stamps = {}
    /\ fly = <<>>
    /\ releases = <<>>
    /\ pc = "prompt_secret_diff"
    /\ fn = op
    /\ error = "none"
    /\ item_id = 1
    /\ raw = <<>>
    /\ deleted_keys = {} /\ added_keys = {} /\ keys_whos_value_changed = {}
    /\ secrets = EmptyDict
    /\ last_update_secrets_response = [kind |-> "none", release |-> "null"]
    /\ secrets_names_in_fly_only = {}
    /\ tmp_file = FALSE
    /\ calls = <<>>

DiffNext == PromptSecretDiffCompute \/ PromptSecretDiffConfirm

SpecDiff == DiffInit /\ [][DiffNext]_vars

(* get_secrets_from_envs over every text in the bounds, as line 458 calls it *)

DecodeInit ==
    /\ op = "import"
    /\ vault = "None"
    /\ token = AppToken
    /\ git = GitMissing
    /\ cwd = RunDir
    /\ secrets_file_path = DefaultEnvFileName
    /\ secure_notes = <<[id |-> 1, title |-> AppToken]>>
    /\ \E t \in Texts(MaxDecodeLines) \ {<<>>} :
        /\ notesPlain = [i \in {1} |-> Some(t)]
        /\ raw = t
    /\ stamps = {}
    /\ env_file = NoFile
    /\ fly = <<>>
    /\ releases = <<>>
    /\ pc = "decode"
    /\ fn = op
    /\ error = "none"
    /\ item_id = 1
    /\ previous_raw_secrets = Absent
    /\ new_raw_secrets = <<>>
    /\ deleted_keys = {} /\ added_keys = {} /\ keys_whos_value_changed = {}
    /\ secrets = EmptyDict
    /\ last_update_secrets_response = [kind |-> "none", release |-> "null"]
    /\ secrets_names_in_fly_only = {}
    /\ tmp_file = FALSE
    /\ calls = <<[call |-> "op_item_list", vault |-> "None", res |-> "ok", arg |-> {}],
                 [call |-> "op_item_get", vault |-> "None", res |-> "ok", arg |-> {}]>>

DecodeNext == Decode

SpecDecode == DecodeInit /\ [][DecodeNext]_vars

(* line 79 over every title of one note, titles written with spaces and tabs,
   and every token that is a word *)

TitleChars == Chars \cup {"\t"}
WordTokens == SeqsUpTo({"a"}, MaxTokenLen) \ {<<>>}

MatchInit ==
    /\ op = "import"
    /\ vault = "None"
    /\ token \in WordTokens
    /\ git = GitMissing
    /\ cwd = RunDir
    /\ secrets_file_path = DefaultEnvFileName
    /\ \E t \in SeqsUpTo(TitleChars, MaxMatchTitleLen) :
            secure_notes = <<[id |-> 1, title |-> t]>>
    /\ notesPlain = [i \in {1} |-> Absent]
    /\ stamps = {}
    /\ env_file = NoFile
    /\ fly = <<>>
    /\ releases = <<>>
    /\ pc = "locate"
    /\ fn = op
    /\ LocalsInit

MatchNext == Locate

SpecMatch == MatchInit /\ [][MatchNext]_vars

(* get_secret_name_label_from_current_directory over every outcome of git and
   every directory name in the bounds *)

HttpsUrl == <<"h", ":", "/", "/", "h", ".", "h", "/", "o", "/", "r", ".", "git">>
NestedUrl == <<"git", "@", "h", ":", "o", "/", "o", "/", "r", ".", "git">>
NoSuffixUrl == <<"h", ":", "/", "/", "h", "/", "o", "/", "r">>
NoOrgUrl == <<"git", "@", "h", ":", "r", ".", "git">>
PathUrl == <<"/", "o", "/", "r", ".", "git">>
GitUrls == {SshUrl, HttpsUrl, NestedUrl, NoSuffixUrl, NoOrgUrl, PathUrl, <<>>}
GitExitCodes == {1, 128}
GitOutcomes ==
    {GitMissing} \cup {GitExit(c) : c \in GitExitCodes} \cup {GitUrl(u) : u \in GitUrls}

LabelInit ==
    /\ op \in {"pull", "push"}
    /\ vault = "None"
    /\ token = <<>>
    /\ git \in GitOutcomes
    /\ cwd \in Strings(MaxTitleLen) \ {<<>>}
    /\ secrets_file_path = DefaultEnvFileName
    /\ secure_notes = <<>>
    /\ notesPlain = <<>>
    /\ stamps = {}
    /\ env_file = NoFile
    /\ fly = <<>>
    /\ releases = <<>>
    /\ pc = "label"
    /\ fn = op
    /\ LocalsInit

LabelNext == DeriveLabel

SpecLabel == LabelInit /\ [][LabelNext]_vars

(* create_local_secrets, then the lookup of a following pull or push, over
   every outcome of git and every directory name in the bounds; the vault
   holds no note, or one that does not bear the label *)

SecretsFilePaths == {DefaultEnvFileName, <<"a", " ", "a">>}
OtherNote == [id |-> 1, title |-> <<"o", "t", "h", "e", "r">>]

CreateInit ==
    /\ op = "create"
    /\ vault \in {"None", "v1"}
    /\ token = <<>>
    /\ git \in GitOutcomes
    /\ cwd \in Strings(MaxTitleLen) \ {<<>>}
    /\ secrets_file_path \in SecretsFilePaths
    /\ secure_notes \in {<<>>, <<OtherNote>>}
    /\ notesPlain = [i \in ItemIdsOf(secure_notes) |-> Absent]
    /\ stamps = {}
    /\ env_file \in {NoFile} \cup {File(t) : t \in Texts(MaxRunLines)}
    /\ fly = <<>>
    /\ releases = <<>>
    /\ pc = "label"
    /\ fn = op
    /\ LocalsInit

CreateNext ==
    \/ DeriveLabel \/ ReadSecretsFile \/ CreateItem \/ ShareLink
    \/ FollowingRun \/ Locate

SpecCreate == CreateInit /\ [][CreateNext]_vars

----------------------------------------------------------------------------
(* Properties *)

\* the listed notes whose title holds the token as one of its words
Matching == {i \in 1..Len(secure_notes) : TitleMatches(token, secure_notes[i].title)}

Listed == Len(calls) > 0 /\ calls[1].call = "op_item_list" /\ calls[1].res = "ok"

\* C1: the lookup returns an id only when exactly one listed title matches the
\* token, and then that item's id; with no match it fails with the not-found
\* error, with two or more with the ambiguous-match error, and a failed
\* lookup hands no id to the caller.
C1_ResolveExactlyOne ==
    /\ item_id # 0 =>
          /\ Cardinality(Matching) = 1
          /\ \A i \in Matching : secure_notes[i].id = item_id
    /\ Listed /\ Cardinality(Matching) = 1 =>
          /\ error = "none"
          /\ \E i \in Matching : secure_notes[i].id = item_id
    /\ Listed /\ Cardinality(Matching) = 0 =>
          pc = "done" /\ error = "not_found" /\ item_id = 0
    /\ Listed /\ Cardinality(Matching) >= 2 =>
          pc = "done" /\ error = "ambiguous" /\ item_id = 0

\* the second of two listed notes is the only match and is the one returned
C1_Witness ==
    Listed /\ Len(secure_notes) = 2 /\ Matching = {2} /\ item_id = 2

\* the diff of _prompt_secret_diff has been computed
DiffComputed ==
    /\ previous_raw_secrets.present
    /\ \/ pc = "confirm_diff"
       \/ \E i \in 1..Len(calls) : calls[i].call \in {"prompt_apply", "prompt_proceed"}

PreviousParsed == DotenvValues(previous_raw_secrets.value)
NewParsed == DotenvValues(new_raw_secrets)

\* the keys bound on both sides to the same value
UnchangedKeys ==
    {k \in DictKeys(PreviousParsed) \cap DictKeys(NewParsed) :
        PreviousParsed.val[k] = NewParsed.val[k]}

\* C8: the three key sets of the diff are pairwise disjoint, and a key held by
\* both secret sets with the same value is in none of them.
C8_DiffSetsDisjoint ==
    DiffComputed =>
        /\ added_keys \cap deleted_keys = {}
        /\ added_keys \cap keys_whos_value_changed = {}
        /\ deleted_keys \cap keys_whos_value_changed = {}
        /\ UnchangedKeys \cap (added_keys \cup deleted_keys \cup keys_whos_value_changed) = {}

\* one key changed its value while another kept it
C8_Witness ==
    DiffComputed /\ keys_whos_value_changed # {} /\ UnchangedKeys # {}

\* C9: added is keys(next) \ keys(previous), removed is keys(previous) \
\* keys(next), modified is the keys of both whose values differ as strings;
\* from an empty previous set every key of next is added and nothing else.
C9_DiffSetsExact ==
    DiffComputed =>
        /\ added_keys = {k \in Keys : k \in DictKeys(NewParsed) /\ k \notin DictKeys(PreviousParsed)}
        /\ deleted_keys = {k \in Keys : k \in DictKeys(PreviousParsed) /\ k \notin DictKeys(NewParsed)}
        /\ keys_whos_value_changed =
               {k \in Keys : /\ k \in DictKeys(PreviousParsed)
                             /\ k \in DictKeys(NewParsed)
                             /\ PreviousParsed.val[k] # NewParsed.val[k]}
        /\ DictKeys(PreviousParsed) = {} =>
               /\ added_keys = DictKeys(NewParsed)
               /\ deleted_keys = {}
               /\ keys_whos_value_changed = {}

\* a previous text binding no key against a text binding two
C9_Witness ==
    DiffComputed /\ DictKeys(PreviousParsed) = {} /\ added_keys = {"A", "B"}

\* the two texts decode to the same secret set
SameSecretSet ==
    /\ DictKeys(PreviousParsed) = DictKeys(NewParsed)
    /\ \A k \in DictKeys(NewParsed) : PreviousParsed.val[k] = NewParsed.val[k]

\* C10: a secret set diffed against itself gives three empty sets, and the
\* "No changes detected" branch is the one taken (its prompt is the one asked).
C10_SelfDiffEmpty ==
    DiffComputed /\ SameSecretSet =>
        /\ added_keys = {} /\ deleted_keys = {} /\ keys_whos_value_changed = {}
        /\ DiffPromptKind = "prompt_proceed"
        /\ \A i \in 1..Len(calls) : calls[i].call # "prompt_apply"

\* a set of two keys diffed against itself, "Proceed anyway" asked
C10_Witness ==
    /\ DiffComputed /\ SameSecretSet /\ DictKeys(NewParsed) = {"A", "B"}
    /\ \E i \in 1..Len(calls) : calls[i].call = "prompt_proceed"

----------------------------------------------------------------------------
(* Properties of a whole invocation *)

IsDiffPrompt(c) == c.call \in {"prompt_apply", "prompt_proceed"}

IsPrompt(c) ==
    c.call \in {"prompt_apply", "prompt_proceed", "prompt_delete", "prompt_deploy",
                "prompt_import"}

\* call i directly follows "yes" to the diff prompt / to the deletion prompt
DiffConfirmedBefore(i) == i > 1 /\ IsDiffPrompt(calls[i-1]) /\ calls[i-1].res = "yes"
DeletionConfirmedBefore(i) ==
    i > 1 /\ calls[i-1].call = "prompt_delete" /\ calls[i-1].res = "yes"

Called(c) == \E i \in 1..Len(calls) : calls[i].call = c

\* C2: the unset mutation is sent only right after "yes" to the deletion
\* prompt of the same run; it names exactly the names the listing returned
\* that the desired set lacks, so never a key of the desired set, and every
\* desired key is still held by the platform after it.
C2_UnsetOnlyConfirmed ==
    /\ pc = "unset_secrets" => DeletionConfirmedBefore(Len(calls) + 1)
    /\ \A i \in 1..Len(calls) : calls[i].call = "fly_unsetSecrets" =>
          /\ DeletionConfirmedBefore(i)
          /\ i > 2 /\ calls[i-2].call = "fly_secrets_query" /\ calls[i-2].res = "ok"
          /\ calls[i].arg = calls[i-2].arg \ DictKeys(secrets)
          /\ calls[i].arg \cap DictKeys(secrets) = {}
          /\ DictKeys(secrets) \subseteq DOMAIN fly

\* key D, which the desired set lacks, was unset after "yes"
C2_Witness ==
    /\ DictKeys(secrets) # {}
    /\ \E i \in 1..Len(calls) :
          calls[i].call = "fly_unsetSecrets" /\ calls[i].res = "ok" /\ calls[i].arg = {"D"}
    /\ "D" \notin DOMAIN fly

\* the user answered "no" to the deletion prompt
DeletionDeclined ==
    \E i \in 1..Len(calls) : calls[i].call = "prompt_delete" /\ calls[i].res = "no"

Recorded == <<item_id, "last imported at">> \in stamps

\* C3 as claimed: after "no" to the deletion prompt the unset is not sent, the
\* key stays on the platform, and the operation does not go on to Recorded.
C3_DeclineAborts ==
    DeletionDeclined =>
        /\ ~Called("fly_unsetSecrets")
        /\ secrets_names_in_fly_only # {}
        /\ secrets_names_in_fly_only \subseteq DOMAIN fly
        /\ ~Recorded

\* C3 amended: after "no" to the deletion prompt the unset is not sent and the
\* key stays on the platform, but the operation is not aborted: it goes on to
\* the release report, and every run that then ends without an error has
\* recorded the last-imported timestamp.
C3_DeclineSkipsUnsetOnly ==
    DeletionDeclined =>
        /\ ~Called("fly_unsetSecrets")
        /\ secrets_names_in_fly_only # {}
        /\ secrets_names_in_fly_only \subseteq DOMAIN fly
        /\ calls[Len(calls)].call = "prompt_delete" => pc = "release" /\ error = "none"
        /\ pc = "done" /\ error = "none" => Recorded

\* "no" was answered, D is still on the platform, and the run ended Recorded
C3_Witness ==
    /\ DeletionDeclined /\ pc = "done" /\ error = "none" /\ Recorded
    /\ "D" \in secrets_names_in_fly_only /\ "D" \in DOMAIN fly

\* C4 as claimed: no mutating call to the target store (one that took effect)
\* precedes "yes" to a diff prompt.
C4_MutationOnlyAfterDiffConfirm ==
    \A i \in 1..Len(calls) :
        /\ calls[i].call \in {"fly_setSecrets", "fly_unsetSecrets", "op_item_edit_notes",
                              "file_write"}
        /\ calls[i].res = "ok"
        => \E j \in 1..(i-1) : IsDiffPrompt(calls[j]) /\ calls[j].res = "yes"

\* C4 amended: the vault write of push and edit directly follows "yes" to the
\* diff prompt; the file write of pull does so when a non-empty file was
\* there, and follows no prompt at all otherwise; the unset mutation
\* directly follows "yes" to the deletion prompt; the replace-all mutation of
\* an import follows no prompt at all, and in an edit only the diff prompt of
\* the vault write and "yes" to the import prompt.
C4_MutationConfirmsPerStore ==
    \A i \in 1..Len(calls) :
        /\ calls[i].call = "op_item_edit_notes" => DiffConfirmedBefore(i)
        /\ calls[i].call = "file_write" =>
              IF previous_raw_secrets.present /\ previous_raw_secrets.value # <<>>
              THEN DiffConfirmedBefore(i)
              ELSE \A j \in 1..(i-1) : ~IsPrompt(calls[j])
        /\ calls[i].call = "fly_unsetSecrets" => DeletionConfirmedBefore(i)
        /\ calls[i].call = "fly_setSecrets" =>
              IF op = "import"
              THEN \A j \in 1..(i-1) : ~IsPrompt(calls[j])
              ELSE \E j \in 1..(i-1) : calls[j].call = "prompt_import" /\ calls[j].res = "yes"

\* an import replaced the secrets on the platform with no prompt before it
C4_Witness ==
    /\ op = "import"
    /\ \E i \in 1..Len(calls) :
          /\ calls[i].call = "fly_setSecrets" /\ calls[i].res = "ok"
          /\ \A j \in 1..(i-1) : ~IsPrompt(calls[j])
    /\ DOMAIN fly # {}

\* the vault item still holds the text that was fetched as the previous one
VaultItemUnchanged == notesPlain[item_id] = previous_raw_secrets

\* C5: `op item edit` with the new text is issued only right after "yes" to
\* the diff prompt; after any other answer no edit is issued, the item is
\* unchanged and the operation has ended with "Aborted by user".
C5_EditOnlyAfterConfirm ==
    op # "pull" =>
        \A i \in 1..Len(calls) :
            /\ calls[i].call = "op_item_edit_notes" =>
                  DiffConfirmedBefore(i) /\ calls[i].arg = {new_raw_secrets}
            /\ IsDiffPrompt(calls[i]) /\ calls[i].res # "yes" =>
                  /\ pc = "done" /\ error = "aborted_by_user"
                  /\ ~Called("op_item_edit_notes")
                  /\ VaultItemUnchanged

\* a changed text was confirmed and written to the item
C5_Witness ==
    /\ op = "push"
    /\ \E i \in 2..Len(calls) :
          /\ calls[i].call = "op_item_edit_notes" /\ calls[i].res = "ok"
          /\ calls[i-1].call = "prompt_apply"
    /\ notesPlain[item_id] = Some(new_raw_secrets)
    /\ previous_raw_secrets # Some(new_raw_secrets)

\* a push or edit whose two texts decode to the same secret set
EmptyDiffPush == op \in {"push", "edit"} /\ DiffComputed /\ SameSecretSet

\* C6: with an empty diff the push still asks "Proceed anyway": the prompt is
\* never skipped, the write directly follows "yes" to it, and any other
\* answer aborts without writing.
C6_EmptyDiffStillAsks ==
    EmptyDiffPush =>
        /\ pc # "confirm_diff" => Called("prompt_proceed")
        /\ pc = "vault_edit" =>
              calls[Len(calls)].call = "prompt_proceed" /\ calls[Len(calls)].res = "yes"
        /\ \A i \in 1..Len(calls) :
              /\ calls[i].call = "op_item_edit_notes" =>
                    /\ i > 1 /\ calls[i-1].call = "prompt_proceed"
                    /\ calls[i-1].res = "yes"
              /\ calls[i].call = "prompt_proceed" /\ calls[i].res # "yes" =>
                    /\ pc = "done" /\ error = "aborted_by_user"
                    /\ ~Called("op_item_edit_notes")
                    /\ VaultItemUnchanged

\* identical content was pushed after "yes" to "Proceed anyway"
C6_Witness ==
    /\ EmptyDiffPush /\ op = "push" /\ DictKeys(NewParsed) # {}
    /\ \E i \in 1..Len(calls) : calls[i].call = "op_item_edit_notes" /\ calls[i].res = "ok"

\* C7 as claimed: whenever the env file was there before the pull, whatever
\* its content, it is overwritten only right after "yes" to the diff prompt.
C7_ExistingFileConfirmed ==
    op = "pull" /\ previous_raw_secrets.present =>
        \A i \in 1..Len(calls) : calls[i].call = "file_write" => DiffConfirmedBefore(i)

\* C7 amended: when the env file was there with non-empty content it is
\* overwritten only right after "yes" to the diff prompt, and after any other
\* answer it is left as it was; a file that was there but empty is
\* overwritten without any prompt.
C7_NonEmptyFileConfirmed ==
    op = "pull" /\ previous_raw_secrets.present =>
        IF previous_raw_secrets.value # <<>>
        THEN \A i \in 1..Len(calls) :
                /\ calls[i].call = "file_write" => DiffConfirmedBefore(i)
                /\ IsDiffPrompt(calls[i]) /\ calls[i].res # "yes" =>
                      /\ pc = "done" /\ error = "aborted_by_user"
                      /\ ~Called("file_write")
                      /\ env_file = File(previous_raw_secrets.value)
        ELSE /\ \A i \in 1..Len(calls) : ~IsPrompt(calls[i])
             /\ pc \in {"write_file", "done"}
             /\ pc = "done" => env_file = File(raw)

\* a non-empty file was overwritten with different content after "yes"
C7_Witness ==
    /\ op = "pull" /\ previous_raw_secrets.present /\ previous_raw_secrets.value # <<>>
    /\ Called("file_write")
    /\ env_file = File(raw) /\ raw # previous_raw_secrets.value

----------------------------------------------------------------------------
(* Properties of get_secrets_from_envs *)

\* the index of the last line of the text that binds key k (0: none does)
LastBinding(text, k) ==
    IF \E i \in 1..Len(text) : text[i].key = k
    THEN CHOOSE i \in 1..Len(text) :
            text[i].key = k /\ \A j \in (i+1)..Len(text) : text[j].key # k
    ELSE 0

BoundKeys(text) == {k \in Keys : LastBinding(text, k) > 0}

\* the keys a text leaves with no value (a bare KEY line is the last word on them)
NullKeys(text) == {k \in BoundKeys(text) : text[LastBinding(text, k)].value = NoneValue}

Decoded == pc # "decode"

\* C11: a text that leaves a key with a null value fails to decode with the
\* parse error, whose message names every such key, each once, and nothing is
\* returned; a text with no null value decodes to the full mapping, every
\* bound key with its value, the empty string included.
C11_DecodeReportsEveryNullKey ==
    Decoded =>
        IF NullKeys(raw) # {}
        THEN /\ pc = "done" /\ error = "parse_error"
             /\ secrets = EmptyDict
             /\ LET last == calls[Len(calls)]
                IN  /\ last.call = "raise_error"
                    /\ Range(last.arg) = NullKeys(raw)
                    /\ Len(last.arg) = Cardinality(NullKeys(raw))
        ELSE /\ error = "none"
             /\ DictKeys(secrets) = BoundKeys(raw)
             /\ \A k \in BoundKeys(raw) : secrets.val[k] = raw[LastBinding(raw, k)].value
             /\ \A i \in 1..Len(calls) : calls[i].call # "raise_error"

\* both keys are null, the second after an earlier empty-string binding, and
\* both are named
C11_Witness ==
    /\ Decoded /\ NullKeys(raw) = {"A", "B"}
    /\ \E i \in 1..Len(raw) : raw[i].key = "A" /\ raw[i].value = ""
    /\ calls[Len(calls)].call = "raise_error"
    /\ Range(calls[Len(calls)].arg) = {"A", "B"}

----------------------------------------------------------------------------
(* Properties of the way an invocation ends *)

Ended == pc = "done"

\* the user answered "no" to one of the three confirmations the claim names
DeclinedConfirmation ==
    \E i \in 1..Len(calls) :
        /\ calls[i].call \in {"prompt_apply", "prompt_proceed", "prompt_delete"}
        /\ calls[i].res = "no"

\* a call failed, an error was reported, a prompt was closed without an
\* answer, or the diff confirmation was declined
FailureSeen ==
    \E i \in 1..Len(calls) :
        \/ calls[i].call # "file_read" /\ calls[i].res \in {"error", "errors", "crash"}
        \/ calls[i].call = "file_read" /\ calls[i].res = "error" /\ op = "push"
        \/ calls[i].call = "raise_error"
        \/ IsPrompt(calls[i]) /\ calls[i].res = "none"
        \/ IsDiffPrompt(calls[i]) /\ calls[i].res = "no"

\* the operation did what it is for
Succeeded ==
    CASE op = "import" -> Called("fly_setSecrets") /\ Recorded
      [] op = "edit"   -> /\ notesPlain[item_id] = Some(new_raw_secrets)
                          /\ \/ calls[Len(calls)].call = "prompt_import"
                                   /\ calls[Len(calls)].res = "no"
                             \/ Recorded
      [] op = "pull"   -> env_file = File(raw)
      [] op = "push"   -> notesPlain[item_id] = Some(new_raw_secrets)

\* C13 as claimed: an invocation in which the user declined the diff, the
\* proceed-anyway or the remote deletion confirmation exits with status 1.
C13_DeclineExitsOne ==
    Ended /\ DeclinedConfirmation => ExitCode = 1

\* C13 amended: the exit status is 0 only when the operation succeeded, and 1
\* after any failed call, reported error, unanswered prompt or declined diff
\* confirmation; "no" to the remote deletion confirmation alone is not an
\* error, the invocation still exits 0 when what follows succeeds.
C13_ExitStatus ==
    Ended =>
        /\ ExitCode = 0 => Succeeded
        /\ FailureSeen => ExitCode = 1
        /\ DeletionDeclined /\ ~FailureSeen => ExitCode = 0

\* deletion and deploy were both declined and the import exited 0
C13_Witness ==
    /\ Ended /\ ExitCode = 0 /\ DeletionDeclined
    /\ \E i \in 1..Len(calls) : calls[i].call = "prompt_deploy" /\ calls[i].res = "no"

\* the call failed: a subprocess or request error, a reported parse error,
\* a prompt closed without an answer, a declined diff confirmation
FailedCall(c) ==
    \/ c.call # "file_read" /\ c.res \in {"error", "errors", "crash"}
    \/ c.call = "file_read" /\ c.res = "error" /\ fn = "push"
    \/ c.call = "raise_error"
    \/ IsPrompt(c) /\ c.res = "none"
    \/ IsDiffPrompt(c) /\ c.res = "no"

\* the listing or the fetch went through but what it returned is an error:
\* no match, several matches, an empty note
FailedLookup(c) ==
    /\ c.res = "ok"
    /\ \/ c.call = "op_item_list" /\ Cardinality(Matching) # 1
       \/ /\ c.call = "op_item_get" /\ pc \in {"fetch", "fetch_previous"}
          /\ ~notesPlain[item_id].present \/ notesPlain[item_id].value = <<>>

\* C14: a step that fails ends the invocation with an error, and no step is
\* taken once an error is set: no call to the vault or to Fly.io follows the
\* failure, and the failed call is not made again.
C14_FailureTerminates ==
    [][/\ error = "none" /\ pc # "done"
       /\ error' # "none" => pc' = "done"
       /\ calls' # calls =>
             LET c == calls'[Len(calls')]
             IN  FailedCall(c) \/ FailedLookup(c) => error' # "none" /\ pc' = "done"]_vars

\* the names query failed after the replace-all went through: the invocation
\* ended there, nothing was unset, deployed or recorded
C14_Witness ==
    /\ Ended /\ error = "fly_errors"
    /\ calls[Len(calls)].call = "fly_secrets_query"
    /\ calls[Len(calls) - 1].call = "fly_setSecrets" /\ calls[Len(calls) - 1].res = "ok"
    /\ stamps = {}

----------------------------------------------------------------------------
(* Properties of the timestamps *)

\* the replace-all mutation went through as call i
SetSecretsDone(i) == calls[i].call = "fly_setSecrets" /\ calls[i].res = "ok"

\* the platform holds every desired key with the desired value
FlyHoldsSecrets ==
    \A k \in DictKeys(secrets) : k \in DOMAIN fly /\ fly[k] = secrets.val[k]

\* C15 as claimed: in every run in which the replace-all mutation succeeded
\* the timestamp write is issued afterwards.
C15_TimestampAlwaysIssued ==
    Ended =>
        \A i \in 1..Len(calls) : SetSecretsDone(i) =>
            \E j \in (i+1)..Len(calls) : calls[j].call = "op_item_edit_field"

\* C15 amended: after a successful replace-all mutation the timestamp write is
\* issued exactly when no later step of the import failed (names query,
\* deletion prompt, unset, deploy prompt, deploy); the vault write of the
\* secret text sets "last edited at" in the same call; and a failed timestamp
\* write ends the invocation with an error and leaves the platform holding
\* the secrets that were sent.
C15_TimestampAfterCompletedUpdate ==
    /\ \A i \in 1..Len(calls) :
          calls[i].call = "op_item_edit_notes" /\ calls[i].res = "ok" =>
              <<item_id, "last edited at">> \in stamps
    /\ Ended =>
          \A i \in 1..Len(calls) : SetSecretsDone(i) =>
              /\ (\E j \in (i+1)..Len(calls) : calls[j].call = "op_item_edit_field")
                  <=> (\A j \in (i+1)..Len(calls) :
                          calls[j].call # "op_item_edit_field" => ~FailedCall(calls[j]))
              /\ calls[Len(calls)].call = "op_item_edit_field"
                    /\ calls[Len(calls)].res = "error" =>
                       /\ error = "op_failed" /\ ~Recorded
                       /\ FlyHoldsSecrets

\* the timestamp write failed and the platform holds the imported secret
C15_Witness ==
    /\ Ended /\ calls[Len(calls)].call = "op_item_edit_field"
    /\ calls[Len(calls)].res = "error"
    /\ DictKeys(secrets) # {} /\ FlyHoldsSecrets /\ ~Recorded

----------------------------------------------------------------------------
(* Properties of update_fly_secrets *)

\* the names query, call i, returned no name outside the desired set
NoStaleKeys(i) ==
    /\ calls[i].call = "fly_secrets_query" /\ calls[i].res = "ok"
    /\ calls[i].arg \subseteq DictKeys(secrets)

\* the key/value pairs the fetched vault text binds
VaultSecretSet == {<<k, raw[LastBinding(raw, k)].value>> : k \in BoundKeys(raw)}

\* C16: when the names query returns no name outside the desired set, the
\* import has sent one replace-all mutation, whose payload is exactly the
\* keys and values the vault text decodes to, and it neither shows the
\* deletion confirmation nor sends the unset mutation.
C16_NoStaleKeysNoDeletion ==
    \A i \in 1..Len(calls) : NoStaleKeys(i) =>
        /\ i > 1 /\ calls[i-1].call = "fly_setSecrets" /\ calls[i-1].res = "ok"
        /\ calls[i-1].arg = VaultSecretSet
        /\ Cardinality({j \in 1..Len(calls) : calls[j].call = "fly_setSecrets"}) = 1
        /\ ~Called("prompt_delete") /\ ~Called("fly_unsetSecrets")
        /\ pc \notin {"prompt_delete", "unset_secrets"}
        /\ secrets_names_in_fly_only = {}

\* key A was sent and is the only name listed; the import ended with no
\* deletion prompt
C16_Witness ==
    /\ Ended /\ error = "none" /\ VaultSecretSet = {<<"A", "1">>}
    /\ \E i \in 1..Len(calls) : NoStaleKeys(i) /\ calls[i].arg = {"A"}
    /\ ~Called("prompt_delete")

----------------------------------------------------------------------------
(* Properties of the title match *)

\* the token is a whole word of the title, words being what the characters
\* of `separators` delimit
IsWholeWord(tok, title, separators) ==
    \E i \in 1..Len(title) : \E j \in i..Len(title) :
        /\ SubSeq(title, i, j) = tok
        /\ i = 1 \/ title[i-1] \in separators
        /\ j = Len(title) \/ title[j+1] \in separators

OnlyTitle == secure_notes[1].title

\* C17 as claimed: the note is found exactly when the token is one whole
\* whitespace-delimited word of its title, whatever whitespace (space or
\* tab) separates the words.
C17_WhitespaceWordMatch ==
    Listed /\ Len(secure_notes) = 1 =>
        (item_id = 1 <=> IsWholeWord(token, OnlyTitle, {" ", "\t"}))

\* C17 amended: the note is found exactly when the token is one whole word of
\* its title, words being delimited by space characters only, however many;
\* a token that is only a part of a longer word is not a match, and neither
\* is a word that a tab separates from its neighbour.
C17_SpaceWordMatch ==
    Listed /\ Len(secure_notes) = 1 =>
        /\ item_id = 1 <=> IsWholeWord(token, OnlyTitle, {" "})
        /\ item_id # 1 => pc = "done" /\ error = "not_found"
        /\ ~IsWholeWord(token, OnlyTitle, {" ", "\t"}) => item_id # 1

\* the token is found as the last word of a title after two spaces
C17_Witness ==
    /\ Listed /\ Len(secure_notes) = 1 /\ item_id = 1 /\ token = <<"a">>
    /\ OnlyTitle = <<"\t", " ", " ", "a">>

----------------------------------------------------------------------------
(* Properties of the edit operation *)

\* C18: the temporary file of an edit exists only while the editor is
\* awaited; it is gone when the invocation has ended, however it ended
\* (completion, editor failure, abort at the diff prompt, vault or Fly.io
\* error), and before any call that follows the editor.
C18_TempFileGone ==
    /\ tmp_file => op = "edit" /\ pc = "editor"
    /\ Ended => ~tmp_file

\* the editor failed, the invocation ended with the exception, the file is gone
C18_Witness ==
    /\ op = "edit" /\ Ended /\ error = "crash" /\ ~tmp_file
    /\ calls[Len(calls)].call = "editor" /\ calls[Len(calls)].res = "error"

IsFlyCall(c) ==
    c.call \in {"fly_setSecrets", "fly_secrets_query", "fly_unsetSecrets",
                "flyctl_secrets_deploy"}

\* calls j and j+1 are the successful vault write of the edited text, right
\* after "yes" to the diff prompt, and "yes" to the import prompt
WrittenAndImportConfirmed(j) ==
    /\ calls[j].call = "op_item_edit_notes" /\ calls[j].res = "ok"
    /\ calls[j].arg = {new_raw_secrets}
    /\ DiffConfirmedBefore(j)
    /\ calls[j+1].call = "prompt_import" /\ calls[j+1].res = "yes"

\* the key/value pairs the edited text binds
EditedSecretSet ==
    {<<k, new_raw_secrets[LastBinding(new_raw_secrets, k)].value>> :
        k \in BoundKeys(new_raw_secrets)}

\* C19: in an edit every call to Fly.io comes after the edited text was
\* written to the vault (itself right after "yes" to the diff prompt) and
\* after "yes" to the import prompt; any other answer to the import prompt
\* ends the edit with no call to Fly.io; and the secrets sent are decoded
\* from the text fetched again from the item, which is the edited text.
C19_EditImportsAfterVaultWrite ==
    op = "edit" =>
        /\ \A i \in 1..Len(calls) : IsFlyCall(calls[i]) =>
              \E j \in 1..(i-2) : WrittenAndImportConfirmed(j)
        /\ \A k \in 1..Len(calls) :
              calls[k].call = "prompt_import" /\ calls[k].res # "yes" =>
                  /\ Ended /\ k = Len(calls)
                  /\ \A i \in 1..Len(calls) : ~IsFlyCall(calls[i])
                  /\ fly \in FlyStates
        /\ \A i \in 1..Len(calls) : calls[i].call = "fly_setSecrets" =>
              /\ raw = new_raw_secrets
              /\ calls[i].arg = EditedSecretSet

\* key A, given a new value in the editor, was written to the vault and
\* imported
C19_Witness ==
    /\ op = "edit" /\ Ended /\ error = "none"
    /\ previous_raw_secrets = Some(<<[key |-> "A", value |-> ""]>>)
    /\ EditedSecretSet = {<<"A", "1">>}
    /\ \E i \in 1..Len(calls) :
          /\ calls[i].call = "fly_setSecrets" /\ calls[i].res = "ok"
          /\ calls[i].arg = {<<"A", "1">>}
    /\ fly["A"] = "1"

----------------------------------------------------------------------------
(* Properties of the label *)

Derived == pc # "label"

FallbackReported == Len(calls) > 0 /\ calls[Len(calls)].call = "print_label_fallback"

\* C20: the label derivation never fails: the operation goes on with no
\* error, holding repo:<org>/<name> when git printed a url that parses (the
\* ssh url of o/r gives repo:o/r), and local-dir:<directory name> after
\* every failure, which is reported and nothing more.
C20_LabelNeverFails ==
    Derived =>
        /\ pc = "locate" /\ error = "none"
        /\ IF git.kind = "url" /\ GitRepositoryRegexMatch(git.url).matched
           THEN /\ token = <<"repo:">> \o GitRepositoryRegexMatch(git.url).group4
                              \o <<"/">> \o GitRepositoryRegexMatch(git.url).group5
                /\ ~FallbackReported
           ELSE /\ token = <<"local-dir:">> \o cwd
                /\ FallbackReported
        /\ git = GitUrl(SshUrl) => token = <<"repo:", "o", "/", "r">>
        /\ git = GitUrl(HttpsUrl) => token = <<"repo:", "o", "/", "r">>
        /\ git = GitUrl(NestedUrl) => token = <<"repo:", "o", "/", "o", "/", "r">>
        /\ git \in {GitUrl(NoSuffixUrl), GitUrl(NoOrgUrl), GitUrl(PathUrl), GitUrl(<<>>)} =>
              token = <<"local-dir:">> \o cwd

\* git printed a url without the .git suffix: the label is that of the
\* directory
C20_Witness ==
    /\ Derived /\ git = GitUrl(NoSuffixUrl) /\ cwd = <<"a", " ", "a">>
    /\ token = <<"local-dir:", "a", " ", "a">> /\ FallbackReported
    /\ pc = "locate" /\ error = "none"

----------------------------------------------------------------------------
(* Properties of the order of the steps of update_fly_secrets *)

\* calls i-2 and i-1 are the replace-all mutation and the names query, both
\* answered
SetAndListedBefore(i) ==
    /\ i > 2
    /\ calls[i-2].call = "fly_setSecrets" /\ calls[i-2].res = "ok"
    /\ calls[i-1].call = "fly_secrets_query" /\ calls[i-1].res = "ok"

\* C21: the deletion prompt is shown only after the replace-all mutation was
\* sent and answered and the names were listed; so when the user declines,
\* the platform already holds every desired key with its desired value, and
\* only the unset is missing: the remote-only names are still there.
C21_SetBeforeDeletionPrompt ==
    /\ pc = "prompt_delete" => SetAndListedBefore(Len(calls) + 1)
    /\ \A i \in 1..Len(calls) : calls[i].call = "prompt_delete" =>
          /\ SetAndListedBefore(i)
          /\ calls[i-2].arg = SecretsInput(secrets)
          /\ calls[i].res = "no" =>
                /\ FlyHoldsSecrets
                /\ ~Called("fly_unsetSecrets")
                /\ secrets_names_in_fly_only \subseteq DOMAIN fly

\* A got its new value on the platform, then the deletion of D was declined
C21_Witness ==
    /\ DeletionDeclined /\ DictKeys(secrets) = {"A"}
    /\ fly = [k \in {"A", "D"} |-> IF k = "A" THEN "1" ELSE "0"]
    /\ secrets_names_in_fly_only = {"D"}

----------------------------------------------------------------------------
(* Properties of the import operation *)

\* the listing failed or did not hold exactly one note with the token
LocateFailed ==
    /\ Len(calls) >= 1
    /\ calls[1].res = "error" \/ Cardinality(Matching) # 1

\* the fetch failed, or the note has no text or an empty one
FetchFailed ==
    /\ Len(calls) >= 2 /\ calls[2].call = "op_item_get"
    /\ \/ calls[2].res = "error"
       \/ ~notesPlain[item_id].present
       \/ notesPlain[item_id].value = <<>>

\* the fetched text leaves a key with a null value
DecodeFailed == pc # "decode" /\ NullKeys(raw) # {}

\* C22: an import sends a request to Fly.io only after the listing returned
\* exactly one note with the token, the fetch returned a text that is there
\* and not empty, and that text decoded with no null value; when one of the
\* three fails, Fly.io receives no request, keeps what it held, and the item
\* receives no timestamp.
C22_ImportSendsAfterDecode ==
    op = "import" =>
        /\ \A i \in 1..Len(calls) : IsFlyCall(calls[i]) =>
              /\ i >= 3
              /\ calls[1].call = "op_item_list" /\ calls[1].res = "ok"
              /\ Cardinality(Matching) = 1
              /\ \A m \in Matching : secure_notes[m].id = item_id
              /\ calls[2].call = "op_item_get" /\ calls[2].res = "ok"
              /\ notesPlain[item_id] = Some(raw) /\ raw # <<>>
              /\ NullKeys(raw) = {}
        /\ LocateFailed \/ FetchFailed \/ DecodeFailed =>
              /\ Ended /\ error # "none"
              /\ \A i \in 1..Len(calls) : ~IsFlyCall(calls[i])
              /\ fly \in FlyStates
              /\ stamps = {} /\ ~Called("op_item_edit_field")

\* the text of the note leaves A without a value: the import ended with the
\* parse error and the platform holds what it held
C22_Witness ==
    /\ op = "import" /\ Ended /\ error = "parse_error"
    /\ NullKeys(raw) = {"A"} /\ DOMAIN fly = {"A", "D"} /\ stamps = {}
    /\ \A i \in 1..Len(calls) : ~IsFlyCall(calls[i])

----------------------------------------------------------------------------
(* Properties of the vault scope *)

IsVaultCall(c) ==
    c.call \in {"op_item_list", "op_item_get", "op_item_edit_notes", "op_item_edit_field"}

\* C23: in an invocation given a vault scope, every call to 1Password (item
\* list, item get, item edit) carries that scope.
C23_EveryVaultCallScoped ==
    vault # "None" =>
        \A i \in 1..Len(calls) : IsVaultCall(calls[i]) => calls[i].vault = vault

\* a push given vault v1 wrote the item, having fetched the file name and
\* the previous text with no scope
C23_Witness ==
    /\ op = "push" /\ vault = "v1" /\ Ended /\ error = "none"
    /\ Cardinality({i \in 1..Len(calls) :
                       calls[i].call = "op_item_get" /\ calls[i].vault = "None"}) = 2
    /\ \E i \in 1..Len(calls) :
          calls[i].call = "op_item_edit_notes" /\ calls[i].vault = "v1"

----------------------------------------------------------------------------
(* Properties of the release report *)

\* the release the replace-all mutation returned ("null": none)
SetSecretsRelease == IF "v1" \in Range(releases) THEN "v1" ELSE "null"

\* update_fly_secrets is past its release report
ReleaseStepDone ==
    \/ pc \in {"deploy", "record"}
    \/ Called("print_releasing") \/ Called("prompt_deploy")

\* C24: "no release created" and the "Deploy secrets now" prompt appear only
\* when the replace-all mutation returned no release; when it returned one,
\* its version is reported and the prompt is not shown, whether or not a
\* confirmed unset followed.
C24_DeployPromptOnlyWithoutRelease ==
    /\ Called("prompt_deploy") => SetSecretsRelease = "null"
    /\ ReleaseStepDone /\ SetSecretsRelease # "null" =>
          /\ \E i \in 1..Len(calls) :
                calls[i].call = "print_releasing" /\ calls[i].res = SetSecretsRelease
          /\ ~Called("prompt_deploy")

\* the replace-all mutation returned release v1, the unset was confirmed and
\* sent, and "Deploy secrets now" was asked
C24_Witness ==
    /\ releases = <<"v1", "id">>
    /\ \E i \in 1..Len(calls) : calls[i].call = "fly_unsetSecrets" /\ calls[i].res = "ok"
    /\ calls[Len(calls)].call = "prompt_deploy"
    /\ ~Called("print_releasing")

----------------------------------------------------------------------------
(* Properties of create_local_secrets *)

\* the lookup of the run that follows the create got its listing
FollowingRunListed ==
    /\ op \in {"pull", "push"} /\ Len(calls) > 0
    /\ calls[Len(calls)].call = "op_item_list" /\ calls[Len(calls)].res = "ok"

\* the note the create added: the last one listed
CreatedId == Len(secure_notes)

\* C25: after a create that succeeded in a vault with no other note bearing
\* the label, the lookup of a following pull or push, run from the same
\* directory and remote, finds exactly the created note, whatever the label
\* (a directory name with a space included).
C25_CreatedItemResolved ==
    FollowingRunListed => error = "none" /\ item_id = CreatedId

\* the directory is named "a a": the note was created with the label
\* local-dir:a a at the end of its title, and the pull that follows does not
\* find it
C25_Witness ==
    /\ FollowingRunListed /\ cwd = <<"a", " ", "a">>
    /\ token = <<"local-dir:", "a", " ", "a">>
    /\ secure_notes[CreatedId].title = CreatedTitle(secrets_file_path, token)
    /\ error = "not_found" /\ item_id = 0

====
